---- MODULE Spec2Model ----
(***************************************************************************)
(* Model of qf_lib's AlphaModelStrategy (signal generation, exposure       *)
(* reconciliation, open-position cap, order generation and submission),    *)
(* of InitialRiskPositionSizer and of the ExecutionStyle classes.          *)
(*                                                                         *)
(* The specifications share the operators that model the code:             *)
(*   SpecExposure  _get_current_exposure applied to every bounded snapshot *)
(*   SpecCap       _adjust_number_of_open_positions applied (twice) to     *)
(*                 every bounded signal list / snapshot / timestamp / cap  *)
(*   Spec          one cycle of calculate_and_place_orders                 *)
(*   SpecSizer     InitialRiskPositionSizer sizing one signal              *)
(*   SpecStyle     == and hash of two ExecutionStyle objects               *)
(***************************************************************************)
EXTENDS Integers, Sequences, FiniteSets, TLC

VARIABLES
    broker_positions,   \* what Broker.get_positions() returns: list of Position
    current_positions,  \* local snapshot of _calculate_signals / argument of _get_current_exposure
    has_contract,       \* whether FutureTicker.get_current_specific_ticker() resolves (else NoValidTickerException)
    query,              \* ticker handed to _get_current_exposure
    result,             \* what _get_current_exposure returned or raised
    signals,            \* the list of Signal objects of the cycle
    original,           \* the signal list as _calculate_signals returned it
    before,             \* the signal list as it was before the last cap enforcement
    runs,               \* number of cap enforcements applied to the list
    timestamp,          \* self.timer.now().timestamp(), as the index of the cycle's day
    max_open_positions, \* self._max_open_positions
    pc,                 \* position of the running call
    todo,               \* (model, ticker) pairs still to iterate in _calculate_signals
    orders,             \* local `orders` of _place_orders
    filter_i,           \* index of the next orders filter in self._orders_filters
    calls,              \* trace of the calls made to the collaborators, with what they returned
    orders_filters,     \* self._orders_filters, as the number of filters configured
    skipped,            \* (model, ticker) pairs whose NoValidTickerException was caught
    raised_by,          \* the call whose exception ended the cycle
    initial_risk,       \* InitialRiskPositionSizer._initial_risk
    sized_signal,       \* the signal being sized
    existing_quantity,  \* PositionSizer._get_existing_position_quantity(contract)
    factory_market,     \* the quantities of the orders OrderFactory.target_percent_orders returns
    factory_stop,       \* how many orders OrderFactory.orders returns
    market_order,       \* what _generate_market_order returned
    stop_order,         \* what _generate_stop_order returned
    factory_calls,      \* trace of the calls made to the order factory
    style_a,            \* an ExecutionStyle object
    style_b,            \* an ExecutionStyle object
    compared            \* results of a == b, b == a, hash(a), hash(b)

cycle_vars == <<broker_positions, current_positions, has_contract, query, result, signals,
                original, before, runs, timestamp, max_open_positions, todo, orders, filter_i,
                calls, orders_filters, skipped, raised_by>>

sizer_vars == <<initial_risk, sized_signal, existing_quantity, factory_market, factory_stop,
                market_order, stop_order, factory_calls>>

style_vars == <<style_a, style_b, compared>>

vars == <<pc, cycle_vars, sizer_vars, style_vars>>

-----------------------------------------------------------------------------
(* Bounds of the model *)

\* longest position list the broker returns
MaxPositions == 2
\* cycle days 0..MaxTimestamp
MaxTimestamp == 1
\* max_open_positions ranges over None and 0..MaxCap
MaxCap == 2
\* longest orders-filter list of the trading session
MaxFilters == 2

-----------------------------------------------------------------------------
(* Tickers, positions, exposures *)

\* max_open_positions = None: the number of open positions is not limited
None == -1

PlainTickers == {"A", "B"}

\* a FutureTicker stands for the family of its specific contracts
FutureTickers == {"F"}

Contracts == {"F1", "F2", "F3"}

Tickers == PlainTickers \cup FutureTickers

SpecificTickers == PlainTickers \cup Contracts

\* signed quantities of open positions
Quantities == {-2, 1}

Positions == [ticker : SpecificTickers, quantity : Quantities]

RECURSIVE SeqsUpTo(_, _)
SeqsUpTo(S, n) ==
    IF n = 0 THEN {<<>>}
    ELSE LET shorter == SeqsUpTo(S, n - 1)
         IN  shorter \cup {Append(s, x) : s \in {t \in shorter : Len(t) = n - 1}, x \in S}

Snapshots == SeqsUpTo(Positions, MaxPositions)

isinstance_FutureTicker(ticker) == ticker \in FutureTickers

belongs_to_family(future_ticker, specific_ticker) ==
    future_ticker = "F" /\ specific_ticker \in Contracts

get_current_specific_ticker(future_ticker) == "F3"

sign(q) == IF q > 0 THEN 1 ELSE IF q < 0 THEN -1 ELSE 0

Exposure(v) == IF v = 1 THEN "LONG" ELSE IF v = -1 THEN "SHORT" ELSE "OUT"

Exposures == {"LONG", "SHORT", "OUT"}

-----------------------------------------------------------------------------
(* AlphaModelStrategy._get_current_exposure *)

\* {position.ticker(): position.quantity() for position in current_positions}:
\* a later position of the same ticker overwrites an earlier one
ticker_to_quantity(positions) ==
    [t \in {positions[i].ticker : i \in DOMAIN positions} |->
        LET last == CHOOSE i \in DOMAIN positions :
                        /\ positions[i].ticker = t
                        /\ \A j \in DOMAIN positions : positions[j].ticker = t => j <= i
        IN  positions[last].quantity]

\* mutant: only the current contract is looked at, older contracts are forgotten
matching_positions_current_only(ticker, positions) ==
    SelectSeq(positions, LAMBDA p : p.ticker = get_current_specific_ticker(ticker))

matching_positions(ticker, positions) ==
    SelectSeq(positions, LAMBDA p : belongs_to_family(ticker, p.ticker))

\* mutant: two stranded positions are tolerated
more_than_one_matching_off_by_one(matching) == Len(matching) > 2

\* if len(matching_positions) > 1: raise AssertionError
more_than_one_matching(matching) == Len(matching) > 1

\* mutant: the assertion compares the wrong way round and never fires
one_position_per_ticker_never_fires(positions) ==
    Cardinality(DOMAIN ticker_to_quantity(positions)) <= Len(positions)

\* assert len(ticker_to_quantity.keys()) == len(current_positions)
one_position_per_ticker(positions) ==
    Cardinality(DOMAIN ticker_to_quantity(positions)) = Len(positions)

\* the value returned, or the name of the exception raised
_get_current_exposure(ticker, positions, resolvable) ==
    IF ~one_position_per_ticker(positions)
    THEN "AssertionError"
    ELSE IF isinstance_FutureTicker(ticker) /\ ~resolvable
    THEN "NoValidTickerException"
    ELSE LET current_ticker == IF isinstance_FutureTicker(ticker)
                               THEN get_current_specific_ticker(ticker) ELSE ticker
             quantities == ticker_to_quantity(positions)
             current_ticker_quantity == IF current_ticker \in DOMAIN quantities
                                        THEN quantities[current_ticker] ELSE 0
         IN  IF current_ticker_quantity = 0 /\ isinstance_FutureTicker(ticker)
             THEN LET matching == matching_positions(ticker, positions)
                  IN  IF more_than_one_matching(matching)
                      THEN "AssertionError"
                      ELSE Exposure(sign(IF matching # <<>> THEN matching[1].quantity ELSE 0))
             ELSE Exposure(sign(current_ticker_quantity))

Errors == {"AssertionError", "NoValidTickerException", "ValueError", "Exception"}

-----------------------------------------------------------------------------
(* SpecExposure: _get_current_exposure on every bounded snapshot *)

\* no sizer is at work
NoSizing ==
    /\ initial_risk = "0.0" /\ sized_signal = <<>> /\ existing_quantity = 0
    /\ factory_market = <<>> /\ factory_stop = 0
    /\ market_order = <<>> /\ stop_order = <<>> /\ factory_calls = <<>>

\* no execution styles are compared
NoStyles ==
    /\ style_a = <<>> /\ style_b = <<>> /\ compared = <<>>

Idle ==
    /\ signals = <<>> /\ original = <<>> /\ before = <<>> /\ runs = 0
    /\ timestamp = 0 /\ max_open_positions = None
    /\ todo = <<>> /\ orders = <<>> /\ filter_i = 0 /\ calls = <<>>
    /\ orders_filters = 0 /\ skipped = {} /\ raised_by = [call |-> "none", exception |-> "none"]
    /\ NoSizing /\ NoStyles

InitExposure ==
    /\ broker_positions \in Snapshots
    /\ current_positions = broker_positions
    /\ has_contract \in BOOLEAN
    /\ query \in Tickers
    /\ result = "none"
    /\ pc = "exposure"
    /\ Idle

GetCurrentExposure ==
    /\ pc = "exposure"
    /\ result' = _get_current_exposure(query, current_positions, has_contract)
    /\ pc' = IF result' \in Errors THEN "raised" ELSE "returned"
    /\ UNCHANGED <<broker_positions, current_positions, has_contract, query, signals, original,
                   before, runs, timestamp, max_open_positions, todo, orders, filter_i, calls>>
    /\ UNCHANGED <<orders_filters, skipped, raised_by, sizer_vars, style_vars>>

NextExposure == GetCurrentExposure

SpecExposure == InitExposure /\ [][NextExposure]_vars

-----------------------------------------------------------------------------
(* AlphaModelStrategy._adjust_number_of_open_positions *)

Models == {"M1", "M2"}

\* fraction_at_risk in hundredths (0.01, 0.05)
Fractions == {1, 5}

Signals == [model : Models, ticker : Tickers, suggested_exposure : Exposures,
            fraction_at_risk : Fractions]

open_positions_specific_tickers(positions) ==
    {positions[i].ticker : i \in DOMAIN positions}

position_for_ticker_exists_in_portfolio(ticker, open_tickers) ==
    IF isinstance_FutureTicker(ticker)
    THEN \E t \in open_tickers : belongs_to_family(ticker, t)
    ELSE ticker \in open_tickers

indices(list) == [i \in 1..Len(list) |-> i]

\* mutant: a future's signal is counted once more when two contracts of its family are open
open_positions_signals_per_contract(list, open_tickers) ==
    SelectSeq(indices(list),
              LAMBDA i : position_for_ticker_exists_in_portfolio(list[i].ticker, open_tickers))
        \o SelectSeq(indices(list),
                     LAMBDA i : /\ isinstance_FutureTicker(list[i].ticker)
                                /\ Cardinality({t \in open_tickers :
                                                   belongs_to_family(list[i].ticker, t)}) >= 2)

\* the signals are kept by their place in the list: a Signal object is mutated, never copied
open_positions_signals(list, open_tickers) ==
    SelectSeq(indices(list),
              LAMBDA i : position_for_ticker_exists_in_portfolio(list[i].ticker, open_tickers))

\* mutant: signals of tickers with an open position count as new positions too
new_positions_signals_any_ticker(list, open_tickers) ==
    SelectSeq(indices(list), LAMBDA i : list[i].suggested_exposure # "OUT")

new_positions_signals(list, open_tickers) ==
    SelectSeq(indices(list),
              LAMBDA i : /\ ~position_for_ticker_exists_in_portfolio(list[i].ticker, open_tickers)
                         /\ list[i].suggested_exposure # "OUT")

\* mutant: one signal too few is changed
no_of_signals_to_change_one_less(number_of_positions_to_be_open, maximum) ==
    number_of_positions_to_be_open - maximum - 1

\* mutant: one signal too many is changed
no_of_signals_to_change_one_more(number_of_positions_to_be_open, maximum) ==
    number_of_positions_to_be_open - maximum + 1

\* mutant: every call changes a single signal
no_of_signals_to_change_one_per_call(number_of_positions_to_be_open, maximum) == 1

no_of_signals_to_change(number_of_positions_to_be_open, maximum) ==
    number_of_positions_to_be_open - maximum

\* sorted(..., key=lambda s: s.fraction_at_risk): stable, equal keys keep their list order
RECURSIVE insert_sorted(_, _, _)
insert_sorted(i, sorted_rest, list) ==
    IF sorted_rest = <<>> THEN <<i>>
    ELSE IF list[Head(sorted_rest)].fraction_at_risk >= list[i].fraction_at_risk
         THEN <<i>> \o sorted_rest
         ELSE <<Head(sorted_rest)>> \o insert_sorted(i, Tail(sorted_rest), list)

RECURSIVE sorted_by_fraction_at_risk(_, _)
sorted_by_fraction_at_risk(chosen, list) ==
    IF chosen = <<>> THEN <<>>
    ELSE insert_sorted(Head(chosen), sorted_by_fraction_at_risk(Tail(chosen), list), list)

\* random.seed(timestamp); random.sample(population, k) takes the first k places of a
\* permutation of the population fixed by the seed and the population's size. The rows are
\* CPython's permutations for the midnights of 2020-01-02, -03, -04, -05 (UTC), population
\* sizes 0..5.
RandomSampleOrder ==
    << << <<>>, <<1>>, <<1, 2>>, <<3, 1, 2>>, <<1, 3, 4, 2>>, <<1, 5, 4, 3, 2>> >>,
       << <<>>, <<1>>, <<2, 1>>, <<2, 1, 3>>, <<3, 1, 4, 2>>, <<3, 2, 1, 4, 5>> >>,
       << <<>>, <<1>>, <<2, 1>>, <<2, 1, 3>>, <<3, 1, 2, 4>>, <<3, 2, 5, 4, 1>> >>,
       << <<>>, <<1>>, <<1, 2>>, <<3, 1, 2>>, <<2, 4, 1, 3>>, <<5, 2, 4, 1, 3>> >> >>

\* random.sample raises ValueError("Sample larger than population or is negative")
sample_larger_than_population(population, k) == k > Len(population) \/ k < 0

\* the sampled members of the population
random_sample(seed, population, k) ==
    {population[RandomSampleOrder[seed + 1][Len(population) + 1][j]] : j \in 1..k}

\* mutant: the suppressed signal is dropped from the list's data, its risk fraction is lost
suppress_clears_fraction(signal) ==
    [signal EXCEPT !.suggested_exposure = "OUT", !.fraction_at_risk = 1]

\* signal.suggested_exposure = Exposure.OUT
suppress(signal) == [signal EXCEPT !.suggested_exposure = "OUT"]

\* the signal list after the call and the exception raised, if any
_adjust_number_of_open_positions(list, positions, maximum, seed) ==
    LET open_tickers == open_positions_specific_tickers(positions)
        open_signals == open_positions_signals(list, open_tickers)
        new_signals == new_positions_signals(list, open_tickers)
        number_of_positions_to_be_open == Len(new_signals) + Len(open_signals)
    IN  IF number_of_positions_to_be_open > maximum
        THEN LET k == no_of_signals_to_change(number_of_positions_to_be_open, maximum)
                 population == sorted_by_fraction_at_risk(new_signals, list)
                 signals_to_change == random_sample(seed, population, k)
             IN  IF sample_larger_than_population(population, k)
                 THEN [raised |-> "ValueError", signals |-> list]
                 ELSE [raised |-> "none",
                       signals |-> [i \in 1..Len(list) |->
                                       IF i \in signals_to_change
                                       THEN suppress(list[i]) ELSE list[i]]]
        ELSE [raised |-> "none", signals |-> list]

-----------------------------------------------------------------------------
(* SpecCap: _adjust_number_of_open_positions, run twice, on every bounded input *)

\* the strategy of this specification trades A and B with model M1 and the future F with M2
CapPairs == << <<"M1", "A">>, <<"M1", "B">>, <<"M2", "F">> >>

\* iteration orders of _calculate_signals: models in dict order, the tickers of a model in
\* the order of set(tickers), which is arbitrary
IterationOrders(pairs) ==
    {order \in [1..Len(pairs) -> 1..Len(pairs)] :
        /\ \A i, j \in 1..Len(pairs) : i # j => order[i] # order[j]
        /\ \A i, j \in 1..Len(pairs) :
              (i < j /\ pairs[order[i]][1] # pairs[order[j]][1]) => order[i] < order[j]}

\* the lists _calculate_signals can hand over: one signal per pair that was not skipped
RECURSIVE SignalLists(_)
SignalLists(pairs) ==
    IF pairs = <<>> THEN {<<>>}
    ELSE LET rest == SignalLists(Tail(pairs))
             head == {[model |-> Head(pairs)[1], ticker |-> Head(pairs)[2],
                       suggested_exposure |-> e, fraction_at_risk |-> f] :
                          e \in Exposures, f \in Fractions}
         IN  rest \cup {<<h>> \o r : h \in head, r \in rest}

CapSignalLists ==
    UNION {SignalLists([i \in 1..Len(CapPairs) |-> CapPairs[order[i]]]) :
              order \in IterationOrders(CapPairs)}

\* cap enforcement reads position.ticker() only
CapSnapshots == {s \in Snapshots : \A i \in DOMAIN s : s[i].quantity = 1}

InitCap ==
    /\ broker_positions \in CapSnapshots
    /\ signals \in CapSignalLists
    /\ timestamp \in 0..MaxTimestamp
    /\ max_open_positions \in 0..MaxCap
    /\ original = signals
    /\ before = signals
    /\ runs = 0
    /\ pc = "cap"
    /\ current_positions = <<>> /\ has_contract = TRUE /\ query = "none" /\ result = "none"
    /\ todo = <<>> /\ orders = <<>> /\ filter_i = 0 /\ calls = <<>>
    /\ orders_filters = 0 /\ skipped = {} /\ raised_by = [call |-> "none", exception |-> "none"]
    /\ NoSizing /\ NoStyles

AdjustNumberOfOpenPositions ==
    /\ pc = "cap"
    /\ runs < 2
    /\ LET adjusted == _adjust_number_of_open_positions(signals, broker_positions,
                                                        max_open_positions, timestamp)
       IN  IF adjusted.raised # "none"
           THEN /\ pc' = "raised"
                /\ UNCHANGED <<signals, before, runs>>
           ELSE /\ before' = signals
                /\ signals' = adjusted.signals
                /\ runs' = runs + 1
                /\ pc' = "cap"
    /\ UNCHANGED <<broker_positions, current_positions, has_contract, query, result, original,
                   timestamp, max_open_positions, todo, orders, filter_i, calls>>
    /\ UNCHANGED <<orders_filters, skipped, raised_by, sizer_vars, style_vars>>

NextCap == AdjustNumberOfOpenPositions

SpecCap == InitCap /\ [][NextCap]_vars

-----------------------------------------------------------------------------
(* Spec: one cycle of AlphaModelStrategy.calculate_and_place_orders *)

\* model_tickers_dict of the strategy of this specification: model M1 trades A and the future F
model_tickers_dict == << <<"M1", "A">>, <<"M1", "F">> >>

\* position lists the broker reports at the start of a cycle
CycleSnapshots ==
    { <<>>,
      << [ticker |-> "A", quantity |-> 1] >>,
      << [ticker |-> "A", quantity |-> 1], [ticker |-> "A", quantity |-> -2] >>,
      << [ticker |-> "F1", quantity |-> -2] >>,
      << [ticker |-> "F1", quantity |-> 1], [ticker |-> "F2", quantity |-> 1] >>,
      << [ticker |-> "A", quantity |-> -2], [ticker |-> "F3", quantity |-> 1] >> }

\* what PositionSizer.size_signals may return
SizerOrders == {<<>>, <<"market">>, <<"market", "stop">>}

\* what FuturesRollingOrdersGenerator.generate_close_orders may return
CloseOrders == {<<>>, <<"close">>}

\* what OrdersFilter.adjust_orders may return for a list: the list, or the list less its head
FilteredOrders(list) == {list} \cup (IF list # <<>> THEN {Tail(list)} ELSE {})

Call(name, arg) == [call |-> name, arg |-> arg]

Raised(name, exception) == [call |-> name, exception |-> exception]

NotRaised == Raised("none", "none")

\* mutant: an empty order list is not submitted
place_orders_skips_empty_list(list) ==
    IF list = <<>> THEN <<>> ELSE <<Call("place_orders", list)>>

\* self._broker.place_orders(orders)
place_orders(list) == <<Call("place_orders", list)>>

\* mutant: the positions are read once and kept for the cap
get_positions_read_once(reader) ==
    IF reader = "_calculate_signals" THEN <<Call("get_positions", reader)>> ELSE <<>>

\* self._broker.get_positions(), called by reader
get_positions(reader) == <<Call("get_positions", reader)>>

\* mutant: no exception is caught in the loop of _calculate_signals
caught_nothing(exception) == FALSE

\* line 176: the except clause of the loop of _calculate_signals
caught(exception) == exception = "NoValidTickerException"

\* mutant: an exception of the sizer is swallowed and the open orders are cancelled
after_raise_sizing_goes_on(step) == IF step = "size" THEN "cancel" ELSE "failed"

\* mutant: an exception of an orders filter is swallowed and the cycle goes on
after_raise_filter_goes_on(step) == IF step = "filter" THEN "cancel" ELSE "failed"

\* lines 95-110, 181-201: no handler around any step, the exception leaves the cycle
after_raise(step) == "failed"

\* mutant: every orders filter is called, whatever the list
filter_applies_always(list) == TRUE

\* line 191: if orders
filter_applies(list) == list # <<>>

\* mutant: the close orders are added only to a non-empty list of the sizer
merge_only_after_orders(list, close_orders) ==
    IF list = <<>> THEN <<>> ELSE list \o close_orders

\* line 188: orders = orders + close_orders
merge(list, close_orders) == list \o close_orders

\* what model.get_signal may do: return a signal, or raise
SignalOutcomes == {"Signal", "NoValidTickerException", "Exception"}

Init ==
    /\ broker_positions \in CycleSnapshots
    /\ has_contract \in BOOLEAN
    /\ timestamp \in 0..MaxTimestamp
    /\ max_open_positions \in {None} \cup 0..MaxCap
    /\ orders_filters \in 0..MaxFilters
    /\ current_positions = <<>>
    /\ query = "none" /\ result = "none"
    /\ signals = <<>> /\ original = <<>> /\ before = <<>> /\ runs = 0
    /\ pc = "start"
    /\ todo = <<>> /\ orders = <<>> /\ filter_i = 0 /\ calls = <<>>
    /\ skipped = {} /\ raised_by = NotRaised
    /\ NoSizing /\ NoStyles

\* lines 96-98, 167-170: the cycle starts, the positions are read, the iteration begins
StartCycle ==
    /\ pc = "start"
    /\ current_positions' = broker_positions
    /\ calls' = calls \o get_positions("_calculate_signals")
    /\ signals' = <<>>
    /\ \E order \in IterationOrders(model_tickers_dict) :
          todo' = [i \in 1..Len(model_tickers_dict) |-> model_tickers_dict[order[i]]]
    /\ pc' = "signals"
    /\ UNCHANGED <<broker_positions, has_contract, query, result, original, before, runs,
                   timestamp, max_open_positions, orders, filter_i>>
    /\ UNCHANGED <<orders_filters, skipped, raised_by, sizer_vars, style_vars>>

\* mutant: the cap is never enforced
after_signals_skips_cap(left) ==
    IF left # <<>> THEN "signals" ELSE "size"

\* where calculate_and_place_orders goes on once the loop of _calculate_signals is over
after_signals(left) ==
    IF left # <<>> THEN "signals"
    ELSE IF max_open_positions # None THEN "cap" ELSE "size"

\* lines 171-177: one (model, ticker) pair of the loop
CalculateSignal ==
    /\ pc = "signals"
    /\ todo # <<>>
    /\ LET model == Head(todo)[1]
           ticker == Head(todo)[2]
           current_exposure == _get_current_exposure(ticker, current_positions, has_contract)
       IN  /\ query' = ticker
           /\ result' = current_exposure
           /\ todo' = Tail(todo)
           /\ IF current_exposure \in Errors
              THEN /\ UNCHANGED <<signals, calls>>
                   /\ IF caught(current_exposure)
                      THEN /\ skipped' = skipped \cup {<<model, ticker>>}
                           /\ pc' = after_signals(Tail(todo))
                           /\ UNCHANGED raised_by
                      ELSE /\ raised_by' = Raised("_get_current_exposure", current_exposure)
                           /\ pc' = after_raise("signals")
                           /\ UNCHANGED skipped
              ELSE /\ calls' = Append(calls, Call("get_signal", <<model, ticker, current_exposure>>))
                   /\ \E outcome \in SignalOutcomes :
                         IF outcome = "Signal"
                         THEN /\ \E e \in Exposures, f \in Fractions :
                                    signals' = Append(signals,
                                        [model |-> model, ticker |-> ticker,
                                         suggested_exposure |-> e, fraction_at_risk |-> f])
                              /\ pc' = after_signals(Tail(todo))
                              /\ UNCHANGED <<skipped, raised_by>>
                         ELSE IF caught(outcome)
                         THEN /\ skipped' = skipped \cup {<<model, ticker>>}
                              /\ pc' = after_signals(Tail(todo))
                              /\ UNCHANGED <<signals, raised_by>>
                         ELSE /\ raised_by' = Raised("get_signal", outcome)
                              /\ pc' = after_raise("signals")
                              /\ UNCHANGED <<signals, skipped>>
    /\ UNCHANGED <<broker_positions, current_positions, has_contract, original, before, runs,
                   timestamp, max_open_positions, orders, filter_i>>
    /\ UNCHANGED <<orders_filters, sizer_vars, style_vars>>

\* lines 105-106, 126-164
EnforceCap ==
    /\ pc = "cap"
    /\ calls' = calls \o get_positions("_adjust_number_of_open_positions")
    /\ LET adjusted == _adjust_number_of_open_positions(signals, broker_positions,
                                                        max_open_positions, timestamp)
       IN  IF adjusted.raised # "none"
           THEN /\ raised_by' = Raised("_adjust_number_of_open_positions", adjusted.raised)
                /\ pc' = after_raise("cap")
                /\ UNCHANGED <<signals, original, before, runs>>
           ELSE /\ original' = signals
                /\ before' = signals
                /\ signals' = adjusted.signals
                /\ runs' = runs + 1
                /\ pc' = "size"
                /\ UNCHANGED raised_by
    /\ UNCHANGED <<broker_positions, current_positions, has_contract, query, result, timestamp,
                   max_open_positions, todo, orders, filter_i>>
    /\ UNCHANGED <<orders_filters, skipped, sizer_vars, style_vars>>

\* line 185
SizeSignals ==
    /\ pc = "size"
    /\ \/ /\ calls' = Append(calls, Call("size_signals", <<signals>>))
          /\ raised_by' = Raised("size_signals", "Exception")
          /\ pc' = after_raise("size")
          /\ UNCHANGED orders
       \/ /\ \E returned \in SizerOrders :
                /\ calls' = Append(calls, Call("size_signals", <<signals, returned>>))
                /\ orders' = returned
          /\ pc' = "close"
          /\ UNCHANGED raised_by
    /\ UNCHANGED <<broker_positions, current_positions, has_contract, query, result, signals,
                   original, before, runs, timestamp, max_open_positions, todo, filter_i>>
    /\ UNCHANGED <<orders_filters, skipped, sizer_vars, style_vars>>

\* lines 187-188
GenerateCloseOrders ==
    /\ pc = "close"
    /\ \/ /\ calls' = Append(calls, Call("generate_close_orders", <<>>))
          /\ raised_by' = Raised("generate_close_orders", "Exception")
          /\ pc' = after_raise("close")
          /\ UNCHANGED <<orders, filter_i>>
       \/ /\ \E close_orders \in CloseOrders :
                /\ calls' = Append(calls, Call("generate_close_orders", <<close_orders>>))
                /\ orders' = merge(orders, close_orders)
          /\ filter_i' = 1
          /\ pc' = IF orders_filters > 0 THEN "filter" ELSE "cancel"
          /\ UNCHANGED raised_by
    /\ UNCHANGED <<broker_positions, current_positions, has_contract, query, result, signals,
                   original, before, runs, timestamp, max_open_positions, todo>>
    /\ UNCHANGED <<orders_filters, skipped, sizer_vars, style_vars>>

\* lines 190-195: one orders filter of the loop
FilterOrders ==
    /\ pc = "filter"
    /\ IF filter_applies(orders)
       THEN \/ /\ calls' = Append(calls, Call("adjust_orders", <<filter_i, orders>>))
               /\ raised_by' = Raised("adjust_orders", "Exception")
               /\ pc' = after_raise("filter")
               /\ UNCHANGED <<orders, filter_i>>
            \/ /\ \E returned \in FilteredOrders(orders) :
                     /\ calls' = Append(calls, Call("adjust_orders", <<filter_i, orders, returned>>))
                     /\ orders' = returned
               /\ filter_i' = filter_i + 1
               /\ pc' = IF filter_i < orders_filters THEN "filter" ELSE "cancel"
               /\ UNCHANGED raised_by
       ELSE /\ filter_i' = filter_i + 1
            /\ pc' = IF filter_i < orders_filters THEN "filter" ELSE "cancel"
            /\ UNCHANGED <<orders, calls, raised_by>>
    /\ UNCHANGED <<broker_positions, current_positions, has_contract, query, result, signals,
                   original, before, runs, timestamp, max_open_positions, todo>>
    /\ UNCHANGED <<orders_filters, skipped, sizer_vars, style_vars>>

\* lines 197-198
CancelAllOpenOrders ==
    /\ pc = "cancel"
    /\ calls' = Append(calls, Call("cancel_all_open_orders", "none"))
    /\ \/ pc' = "place" /\ UNCHANGED raised_by
       \/ /\ pc' = after_raise("cancel")
          /\ raised_by' = Raised("cancel_all_open_orders", "Exception")
    /\ UNCHANGED <<broker_positions, current_positions, has_contract, query, result, signals,
                   original, before, runs, timestamp, max_open_positions, todo, orders, filter_i>>
    /\ UNCHANGED <<orders_filters, skipped, sizer_vars, style_vars>>

\* lines 200-201, 110
PlaceOrders ==
    /\ pc = "place"
    /\ calls' = calls \o place_orders(orders)
    /\ \/ pc' = "done" /\ UNCHANGED raised_by
       \/ /\ pc' = after_raise("place")
          /\ raised_by' = Raised("place_orders", "Exception")
    /\ UNCHANGED <<broker_positions, current_positions, has_contract, query, result, signals,
                   original, before, runs, timestamp, max_open_positions, todo, orders, filter_i>>
    /\ UNCHANGED <<orders_filters, skipped, sizer_vars, style_vars>>

Next ==
    \/ StartCycle
    \/ CalculateSignal
    \/ EnforceCap
    \/ SizeSignals
    \/ GenerateCloseOrders
    \/ FilterOrders
    \/ CancelAllOpenOrders
    \/ PlaceOrders

Spec == Init /\ [][Next]_vars

-----------------------------------------------------------------------------
(* Exposure reconciliation: C8, C9 (checked under SpecExposure) *)

\* the positions of the snapshot held on ticker t
Held(t) == {i \in DOMAIN current_positions : current_positions[i].ticker = t}

\* quantity the snapshot shows for t when it shows exactly one position, 0 when none
HeldQuantity(t) ==
    IF Held(t) = {} THEN 0 ELSE current_positions[CHOOSE i \in Held(t) : TRUE].quantity

NoDuplicateTicker == \A t \in SpecificTickers : Cardinality(Held(t)) <= 1

FamilyContractsHeld == {t \in Contracts : Held(t) # {}}

SignExposure(q) == IF q > 0 THEN "LONG" ELSE IF q < 0 THEN "SHORT" ELSE "OUT"

CalledExposure == pc \in {"returned", "raised"}

\* C8: for a plain ticker the exposure is the sign of its snapshot quantity (absent: OUT);
\* for a future family it is the sign of the current contract's quantity when non-zero,
\* otherwise the sign of the single open position of the family, otherwise OUT.
C8_ExposureResult ==
    (CalledExposure /\ NoDuplicateTicker) =>
        /\ query \in PlainTickers => result = SignExposure(HeldQuantity(query))
        /\ (query \in FutureTickers /\ has_contract) =>
            LET current == HeldQuantity("F3")
            IN  /\ current # 0 => result = SignExposure(current)
                /\ (current = 0 /\ Cardinality(FamilyContractsHeld) = 1) =>
                       result = SignExposure(HeldQuantity(CHOOSE t \in FamilyContractsHeld : TRUE))
                /\ (current = 0 /\ FamilyContractsHeld = {}) => result = "OUT"

\* one open position on an old contract, none on the current one: the old contract's exposure
C8_Witness ==
    /\ pc = "returned" /\ query = "F" /\ has_contract
    /\ FamilyContractsHeld = {"F1"} /\ HeldQuantity("F1") < 0 /\ Held("A") # {}
    /\ result = "SHORT"

\* C9 as claimed: with positions open on two specific contracts of the family the exposure
\* computation for the family never returns an exposure.
C9_TwoContractsAlwaysRaise ==
    (CalledExposure /\ query \in FutureTickers /\ Cardinality(FamilyContractsHeld) >= 2) =>
        result \notin Exposures

\* C9 amended: the computation raises AssertionError when the current contract has no position
\* and two contracts of the family have one; when the current contract has a position, its
\* exposure is returned although another contract of the family is open as well.
C9_TwoStrandedContractsRaise ==
    (CalledExposure /\ query \in FutureTickers /\ has_contract
        /\ Cardinality(FamilyContractsHeld) >= 2) =>
        /\ Held("F3") = {} => result = "AssertionError"
        /\ (Held("F3") # {} /\ NoDuplicateTicker) => result = SignExposure(HeldQuantity("F3"))

C9_Witness ==
    /\ pc = "raised" /\ query = "F" /\ has_contract
    /\ FamilyContractsHeld = {"F1", "F2"} /\ NoDuplicateTicker
    /\ result = "AssertionError"

-----------------------------------------------------------------------------
(* Open-position cap: C2 .. C7 (checked under SpecCap) *)

\* the ticker, or a contract of its family, has a position in the portfolio
HasOpenPosition(ticker) ==
    \E i \in DOMAIN broker_positions :
        IF ticker \in FutureTickers
        THEN broker_positions[i].ticker \in Contracts
        ELSE broker_positions[i].ticker = ticker

TouchesOpenPosition(list) == {i \in DOMAIN list : HasOpenPosition(list[i].ticker)}

OpensNewPosition(list) ==
    {i \in DOMAIN list : ~HasOpenPosition(list[i].ticker) /\ list[i].suggested_exposure # "OUT"}

PositionsToBeOpen(list) ==
    Cardinality(TouchesOpenPosition(list)) + Cardinality(OpensNewPosition(list))

\* the places of the list whose suggested exposure the last cap enforcement changed
Changed ==
    {i \in DOMAIN signals : signals[i].suggested_exposure # before[i].suggested_exposure}

Excess(list) ==
    IF PositionsToBeOpen(list) > max_open_positions
    THEN PositionsToBeOpen(list) - max_open_positions ELSE 0

CapEnforced == pc = "cap" /\ runs >= 1

CapEnforcedOnce == pc = "cap" /\ runs = 1

\* C2: after _adjust_number_of_open_positions the signals touching an open position plus the
\* signals opening a new one (exposure not OUT) are at most max_open_positions; the call
\* fails to return (ValueError) only when the signals touching open positions alone exceed it.
C2_CapRespected ==
    /\ CapEnforced => PositionsToBeOpen(signals) <= max_open_positions
    /\ pc = "raised" => Cardinality(TouchesOpenPosition(signals)) > max_open_positions

C2_Witness ==
    /\ CapEnforcedOnce /\ Changed # {}
    /\ TouchesOpenPosition(signals) # {}
    /\ PositionsToBeOpen(before) > max_open_positions
    /\ PositionsToBeOpen(signals) = max_open_positions

\* C3: cap enforcement never changes the suggested exposure of a signal whose ticker (or a
\* contract of whose family) has an open position; only new-position signals are suppressed.
C3_OpenPositionSignalsUntouched ==
    CapEnforced =>
        /\ \A i \in TouchesOpenPosition(before) : signals[i] = before[i]
        /\ \A i \in DOMAIN signals : signals[i] # before[i] => i \in OpensNewPosition(before)

C3_Witness ==
    /\ CapEnforcedOnce /\ Changed # {}
    /\ \E i \in TouchesOpenPosition(before) :
          /\ before[i].ticker \in FutureTickers
          /\ signals[i].suggested_exposure # "OUT"

\* C4: the list keeps the same signals in the same order, exactly
\* max(0, open + new - max_open_positions) of them have their exposure set to OUT, nothing
\* else changes, and nothing at all when open + new <= max_open_positions.
C4_SuppressionByMutationOnly ==
    CapEnforced =>
        /\ Len(signals) = Len(before)
        /\ \A i \in DOMAIN signals :
              signals[i] = before[i] \/ signals[i] = [before[i] EXCEPT !.suggested_exposure = "OUT"]
        /\ Cardinality(Changed) = Excess(before)
        /\ \A i \in Changed : before[i].suggested_exposure # "OUT"
        /\ PositionsToBeOpen(before) <= max_open_positions => signals = before

C4_Witness ==
    /\ CapEnforcedOnce /\ Cardinality(Changed) = 2 /\ Len(signals) = 3
    /\ \E i \in Changed : before[i].fraction_at_risk = 5 /\ before[i].suggested_exposure = "SHORT"

\* the scenario of C5: a cap of 1, no position, two new-position signals at 0.01 and 0.05
C5_Scenario ==
    /\ max_open_positions = 1 /\ broker_positions = <<>>
    /\ Len(before) = 2 /\ OpensNewPosition(before) = {1, 2}
    /\ {before[1].fraction_at_risk, before[2].fraction_at_risk} = {1, 5}

\* C5 as claimed: in the scenario the suppressed signal is the one with fraction_at_risk 0.01.
C5_LowestFractionSuppressed ==
    (CapEnforcedOnce /\ C5_Scenario) =>
        \A i \in {1, 2} : (signals[i].suggested_exposure = "OUT") = (before[i].fraction_at_risk = 1)

\* C5 amended: in the scenario exactly one of the two signals is suppressed to OUT, the one
\* the sample seeded with the cycle's timestamp draws (the 0.01 one on 2020-01-02, the 0.05
\* one on 2020-01-03); the other signal is left as it was.
C5_ExactlyOneSuppressed ==
    /\ (pc = "raised" /\ runs = 0) => ~C5_Scenario
    /\ (CapEnforcedOnce /\ C5_Scenario) =>
           /\ Cardinality(Changed) = 1
           /\ \A i \in {1, 2} : signals[i] = before[i] \/ i \in Changed
           /\ \A i \in Changed :
                 /\ signals[i].suggested_exposure = "OUT"
                 /\ timestamp = 0 => before[i].fraction_at_risk = 1
                 /\ timestamp = 1 => before[i].fraction_at_risk = 5

C5_Witness ==
    /\ CapEnforcedOnce /\ C5_Scenario
    /\ \E i \in {1, 2} : before[i].fraction_at_risk = 5 /\ signals[i].suggested_exposure = "OUT"
    /\ \E i \in {1, 2} : before[i].fraction_at_risk = 1 /\ signals[i].suggested_exposure = "LONG"

\* the (model, ticker) pairs whose signal a cap enforcement suppressed
Suppressed(list_before, list_after) ==
    {<<list_before[i].model, list_before[i].ticker>> :
        i \in {j \in DOMAIN list_before :
                  list_before[j].suggested_exposure # list_after[j].suggested_exposure}}

\* the same signals appended in another order _calculate_signals can produce
Reorderings(list) ==
    {other \in CapSignalLists :
        /\ Len(other) = Len(list)
        /\ {other[i] : i \in DOMAIN other} = {list[i] : i \in DOMAIN list}}

\* C6: two cap enforcements with the same timestamp, positions and set of signals suppress
\* the same set of signals, whatever the order the signals were appended in.
C6_SuppressionIndependentOfOrder ==
    CapEnforcedOnce =>
        \A other \in Reorderings(before) :
            LET rerun == _adjust_number_of_open_positions(other, broker_positions,
                                                          max_open_positions, timestamp)
            IN  /\ rerun.raised = "none"
                /\ Suppressed(other, rerun.signals) = Suppressed(before, signals)

\* C7: a second cap enforcement on the list the first one produced (same positions, timestamp
\* and cap) does not raise and leaves every suggested exposure unchanged.
C7_SecondRunChangesNothing ==
    /\ (pc = "cap" /\ runs = 2) => (Changed = {} /\ signals = before)
    /\ (pc = "raised") => runs = 0

C7_Witness ==
    /\ pc = "cap" /\ runs = 2 /\ signals = before
    /\ Cardinality({i \in DOMAIN signals :
                       signals[i].suggested_exposure # original[i].suggested_exposure}) = 2

-----------------------------------------------------------------------------
(* The cycle: C1, C10 (checked under Spec) *)

\* the calls the broker received for its orders, in the order they were made
BrokerOrderCalls ==
    SelectSeq(calls, LAMBDA c : c.call \in {"cancel_all_open_orders", "place_orders"})

\* C1: a cycle that completes made exactly one cancel_all_open_orders call and then exactly
\* one place_orders call, with the final order list, also when that list is empty; and no
\* place_orders call is ever made that a cancel_all_open_orders call does not precede.
C1_CancelThenPlace ==
    /\ Len(BrokerOrderCalls) <= 2
    /\ Len(BrokerOrderCalls) >= 1 => BrokerOrderCalls[1].call = "cancel_all_open_orders"
    /\ Len(BrokerOrderCalls) = 2 => BrokerOrderCalls[2].call = "place_orders"
    /\ pc = "done" =>
          /\ Len(BrokerOrderCalls) = 2
          /\ BrokerOrderCalls[2].arg = orders

\* a completed cycle whose order list was empty
C1_Witness ==
    /\ pc = "done" /\ orders = <<>> /\ signals # <<>>
    /\ Len(BrokerOrderCalls) = 2
    /\ BrokerOrderCalls[2].call = "place_orders" /\ BrokerOrderCalls[2].arg = <<>>

\* C10: when the snapshot holds two positions of one exact ticker, the exposure computation
\* of the first ticker queried, whichever it is, fails with AssertionError: no signal is
\* requested from a model and the cycle aborts before sizing, cancelling or placing.
C10_DuplicateTickerAbortsCycle ==
    (pc # "start" /\ ~NoDuplicateTicker) =>
        /\ pc \in {"signals", "failed"}
        /\ \A i \in DOMAIN calls : calls[i].call = "get_positions"
        /\ signals = <<>>
        /\ pc = "signals" => Len(todo) = Len(model_tickers_dict)
        /\ pc = "failed" => /\ result = "AssertionError"
                            /\ Len(todo) = Len(model_tickers_dict) - 1

C10_Witness ==
    /\ pc = "failed" /\ ~NoDuplicateTicker
    /\ query = "F" /\ Held("A") # {} /\ result = "AssertionError"
    /\ Len(calls) = 1

-----------------------------------------------------------------------------
(* The cycle's failures and its reads: C11, C12, C13 (checked under Spec) *)

\* the calls of the trace made to the collaborator's method name
CallsOf(name) == {i \in DOMAIN calls : calls[i].call = name}

\* the (model, ticker) pairs the loop of _calculate_signals has gone through
Processed ==
    {model_tickers_dict[i] : i \in DOMAIN model_tickers_dict} \ {todo[i] : i \in DOMAIN todo}

\* the (model, ticker) pairs that have a signal in the list
Contributed == {<<signals[i].model, signals[i].ticker>> : i \in DOMAIN signals}

\* the cycle ended in the loop of _calculate_signals
FailedInSignals == raised_by.call \in {"_get_current_exposure", "get_signal"}

\* C11: a NoValidTickerException of the exposure computation or of get_signal never ends
\* the cycle; the pair it was raised for has no signal in the list, and every other pair
\* the loop has gone through has exactly one, up to the submission of the orders
C11_UnresolvableTickerIsSkipped ==
    /\ raised_by.exception # "NoValidTickerException"
    /\ (pc # "start" /\ ~FailedInSignals) =>
          /\ Contributed = Processed \ skipped
          /\ Len(signals) = Cardinality(Contributed)
    /\ pc = "failed" => raised_by.exception \in {"AssertionError", "ValueError", "Exception"}

\* a pair was skipped, the other pair contributed its signal, and the orders were placed
C11_Witness ==
    /\ pc = "done"
    /\ Cardinality(skipped) = 1
    /\ Len(signals) = 1
    /\ CallsOf("size_signals") # {}
    /\ CallsOf("cancel_all_open_orders") # {}
    /\ CallsOf("place_orders") # {}

\* the last of a non-empty set of indices of the trace
LastOf(S) == CHOOSE i \in S : \A j \in S : j <= i

\* what a call of the trace returned: the last element of what the trace keeps of it
Returned(i) == calls[i].arg[Len(calls[i].arg)]

\* the calls of the trace that returned: size_signals keeps <<signals, returned>>,
\* generate_close_orders <<returned>>, adjust_orders <<index, given, returned>>
ReturnedCallsOf(name) ==
    {i \in CallsOf(name) :
        Len(calls[i].arg) = (IF name = "size_signals" THEN 2
                             ELSE IF name = "adjust_orders" THEN 3 ELSE 1)}

\* the list that _place_orders has built: what the sizer returned followed by the close
\* orders
MergedOrders ==
    Returned(LastOf(ReturnedCallsOf("size_signals")))
        \o Returned(LastOf(ReturnedCallsOf("generate_close_orders")))

\* the list that the last step of the construction has returned
FinalOrders ==
    IF ReturnedCallsOf("adjust_orders") = {} THEN MergedOrders
    ELSE Returned(LastOf(ReturnedCallsOf("adjust_orders")))

\* the steps that come before the submission
StepsBeforePlacement ==
    {"_get_current_exposure", "get_signal", "_adjust_number_of_open_positions", "size_signals",
     "generate_close_orders", "adjust_orders", "cancel_all_open_orders"}

\* C12: when an exception has been raised by a step before the submission, place_orders is
\* not called in the cycle; place_orders is called at most once, after the loop over all
\* the filters, with the list that the last step of the construction returned
C12_AllOrNothingPlacement ==
    /\ raised_by.call \in StepsBeforePlacement => CallsOf("place_orders") = {}
    /\ Cardinality(CallsOf("place_orders")) <= 1
    /\ \A i \in CallsOf("place_orders") :
          /\ filter_i = orders_filters + 1
          /\ calls[i].arg = FinalOrders
          /\ i = Len(calls)

\* a filter raised on a non-empty list: the cycle is over and nothing was submitted
C12_Witness ==
    /\ pc = "failed"
    /\ raised_by.call = "adjust_orders"
    /\ filter_i = 2
    /\ orders # <<>>
    /\ CallsOf("place_orders") = {}

\* the reads of the broker's positions made by reader
ReadsBy(reader) == {i \in CallsOf("get_positions") : calls[i].arg = reader}

\* the cap step has been entered
CapStepEntered ==
    /\ max_open_positions # None
    /\ \/ pc \in {"size", "close", "filter", "cancel", "place", "done"}
       \/ pc = "failed" /\ ~FailedInSignals

-----------------------------------------------------------------------------
(* The construction of the order list: C18, C19, C20 (checked under Spec) *)

\* the filter called, and the list given to it, in call i of the trace
FilterIndex(i) == calls[i].arg[1]

Given(i) == calls[i].arg[2]

\* C18: the filters are called in the configured order, each on what the filter before it
\* returned and the first on the merged list; adjust_orders is only ever given a non-empty
\* list; once the list is empty no later filter is called and the empty list is submitted
C18_FiltersChained ==
    LET A == CallsOf("adjust_orders")
    IN  /\ {FilterIndex(i) : i \in A} = 1..Cardinality(A)
        /\ Cardinality(A) <= orders_filters
        /\ \A i \in A :
              /\ Given(i) # <<>>
              /\ Given(i) = (IF FilterIndex(i) = 1 THEN MergedOrders
                             ELSE Returned(LastOf({j \in A : j < i})))
              /\ \A j \in A : j < i => /\ FilterIndex(j) < FilterIndex(i)
                                       /\ j \in ReturnedCallsOf("adjust_orders")
        /\ (pc \in {"cancel", "place", "done"} /\ Cardinality(A) < orders_filters) =>
              /\ orders = <<>>
              /\ FinalOrders = <<>>
              /\ \A i \in CallsOf("place_orders") : calls[i].arg = <<>>

\* of two filters the first emptied the list: the second was not called and the empty
\* list was submitted
C18_Witness ==
    /\ pc = "done"
    /\ orders_filters = 2
    /\ MergedOrders # <<>>
    /\ Cardinality(CallsOf("adjust_orders")) = 1
    /\ \E i \in CallsOf("place_orders") : calls[i].arg = <<>>

\* C19: whenever size_signals has returned, generate_close_orders is the next call, made
\* once, whatever the signals and whatever the sizer returned; the list handed to the first
\* filter, and to place_orders when no filter is configured, is what the sizer returned
\* followed by all the close orders
C19_CloseOrdersAlwaysAppended ==
    /\ \A i \in ReturnedCallsOf("size_signals") :
          pc # "close" => /\ CallsOf("generate_close_orders") = {i + 1}
                          /\ i + 1 \in DOMAIN calls
    /\ CallsOf("generate_close_orders") # {} => ReturnedCallsOf("size_signals") # {}
    /\ ReturnedCallsOf("generate_close_orders") # {} =>
          /\ (CallsOf("adjust_orders") = {} /\ filter_i = 1) => orders = MergedOrders
          /\ \A i \in CallsOf("adjust_orders") : FilterIndex(i) = 1 => Given(i) = MergedOrders
          /\ orders_filters = 0 =>
                \A i \in CallsOf("place_orders") : calls[i].arg = MergedOrders

\* no signal and no order of the sizer, no filter: the close orders alone were submitted
C19_Witness ==
    /\ pc = "done"
    /\ orders_filters = 0
    /\ signals = <<>>
    /\ Returned(LastOf(ReturnedCallsOf("size_signals"))) = <<>>
    /\ \E i \in CallsOf("place_orders") : calls[i].arg = <<"close">>

\* the phase of the cycle a call of the trace belongs to
Phase(c) ==
    IF c.call = "get_positions"
    THEN (IF c.arg = "_calculate_signals" THEN 0 ELSE 2)
    ELSE IF c.call = "get_signal" THEN 1
    ELSE IF c.call = "size_signals" THEN 3
    ELSE IF c.call = "generate_close_orders" THEN 4
    ELSE IF c.call = "adjust_orders" THEN 5
    ELSE IF c.call = "cancel_all_open_orders" THEN 6
    ELSE 7

\* the phases a call may come from, for a call of phase p that is not the first of the trace
PhasesBefore(p) ==
    IF p = 0 THEN {}
    ELSE IF p \in {1, 2} THEN {0, 1}
    ELSE IF p = 3 THEN {0, 1, 2}
    ELSE IF p = 4 THEN {3}
    ELSE IF p = 5 THEN {4, 5}
    ELSE IF p = 6 THEN {4, 5}
    ELSE {6}

\* C20: the calls of a cycle come phase by phase: every get_signal, then the cap step when
\* a cap is configured (and only then), then the single size_signals, then the single
\* generate_close_orders, then every adjust_orders, then cancel_all_open_orders, then
\* place_orders; no call of an earlier phase follows a call of a later one
C20_PhasesInOrder ==
    /\ calls # <<>> => Phase(calls[1]) = 0
    /\ \A i \in DOMAIN calls : i > 1 => Phase(calls[i - 1]) \in PhasesBefore(Phase(calls[i]))
    /\ \A i \in DOMAIN calls : Phase(calls[i]) = 2 => max_open_positions # None
    /\ (max_open_positions # None /\ CallsOf("size_signals") # {}) =>
          \E i \in DOMAIN calls : Phase(calls[i]) = 2

\* a cycle with a cap and two filters made calls of every phase
C20_Witness ==
    /\ pc = "done"
    /\ max_open_positions # None
    /\ Cardinality(CallsOf("get_signal")) = 2
    /\ Cardinality(CallsOf("adjust_orders")) = 2
    /\ {Phase(calls[i]) : i \in DOMAIN calls} = 0..7

-----------------------------------------------------------------------------
(* SpecSizer: InitialRiskPositionSizer sizes one signal for one contract, with stop losses *)

\* the most orders the order factory returns for a request
MaxFactoryOrders == 2

\* float values of initial_risk and of fraction_at_risk
Floats == {"nan", "inf", "-inf", "0.0", "0.02", "0.04", "1e308"}

NonFinite == {"nan", "inf", "-inf"}

\* qf_lib.common.utils.numberutils.is_finite_number
is_finite_number(x) == x \notin NonFinite

\* x / y of two Python floats, for the values of Floats
divide(x, y) ==
    IF y = "0.0" THEN "ZeroDivisionError"
    ELSE IF x = "nan" \/ y = "nan" THEN "nan"
    ELSE IF x \in NonFinite THEN (IF y \in NonFinite THEN "nan" ELSE x)
    ELSE IF y = "inf" THEN "0.0"
    ELSE IF y = "-inf" THEN "-0.0"
    ELSE IF x = "0.0" THEN "0.0"
    ELSE IF x = y THEN "1.0"
    ELSE IF x = "1e308" THEN "inf"
    ELSE IF y = "1e308" THEN (IF x = "0.02" THEN "2e-310" ELSE "4e-310")
    ELSE IF x = "0.02" THEN "0.5"
    ELSE "2.0"

\* mutant: fraction_at_risk is not checked
fraction_at_risk_unchecked(x) == TRUE

\* line 34: assert is_finite_number(signal.fraction_at_risk)
fraction_at_risk_checked(x) == is_finite_number(x)

\* mutant: the first of the orders is taken when the factory returns several
only_one_order_or_the_first(list) == Len(list) >= 1

\* lines 44, 62: assert len(...) == 1
only_one_order(list) == Len(list) = 1

\* mutant: the stop covers the market order only
stop_quantity_of_market_order_only(existing, order) ==
    IF order # <<>> THEN order[1].quantity ELSE 0

\* lines 51-54: the existing position's quantity, plus the market order's if there is one
stop_quantity(existing, order) ==
    IF order # <<>> THEN existing + order[1].quantity ELSE existing

\* the orders the factory builds with the given execution style, one per quantity
Orders(quantities, style) ==
    [i \in DOMAIN quantities |-> [quantity |-> quantities[i], style |-> style]]

\* lines 32-45; None is the empty list, an order the list holding it
_generate_market_order(risk, fraction, quantities) ==
    LET target_percentage == divide(risk, fraction)
        market_order_list == Orders(quantities, "MarketOrder")
        factory_call == <<Call("target_percent_orders", target_percentage)>>
    IN  IF ~is_finite_number(risk) \/ ~fraction_at_risk_checked(fraction)
        THEN [raised |-> "AssertionError", calls |-> <<>>, order |-> <<>>]
        ELSE IF target_percentage = "ZeroDivisionError"
        THEN [raised |-> "ZeroDivisionError", calls |-> <<>>, order |-> <<>>]
        ELSE IF ~is_finite_number(target_percentage)
        THEN [raised |-> "AssertionError", calls |-> <<>>, order |-> <<>>]
        ELSE IF Len(market_order_list) = 0
        THEN [raised |-> "none", calls |-> factory_call, order |-> <<>>]
        ELSE IF ~only_one_order(market_order_list)
        THEN [raised |-> "AssertionError", calls |-> factory_call, order |-> <<>>]
        ELSE [raised |-> "none", calls |-> factory_call, order |-> <<market_order_list[1]>>]

\* lines 47-63
_generate_stop_order(existing, order, count) ==
    LET requested == 0 - stop_quantity(existing, order)
        stop_orders == Orders([i \in 1..count |-> requested], "StopOrder")
        factory_call == <<Call("orders", requested)>>
    IN  IF Len(stop_orders) = 0
        THEN [raised |-> "none", calls |-> factory_call, order |-> <<>>]
        ELSE IF ~only_one_order(stop_orders)
        THEN [raised |-> "AssertionError", calls |-> factory_call, order |-> <<>>]
        ELSE [raised |-> "none", calls |-> factory_call, order |-> <<stop_orders[1]>>]

\* quantities of a position and of a market order
OrderQuantities == {-2, -1, 1}

InitSizer ==
    /\ broker_positions = <<>> /\ current_positions = <<>>
    /\ has_contract = TRUE /\ query = "none" /\ result = "none"
    /\ signals = <<>> /\ original = <<>> /\ before = <<>> /\ runs = 0
    /\ timestamp = 0 /\ max_open_positions = None
    /\ todo = <<>> /\ orders = <<>> /\ filter_i = 0 /\ calls = <<>>
    /\ orders_filters = 0 /\ skipped = {} /\ raised_by = NotRaised
    /\ NoStyles
    /\ initial_risk \in Floats
    /\ sized_signal \in [suggested_exposure : Exposures, fraction_at_risk : Floats]
    /\ existing_quantity \in OrderQuantities \cup {0}
    /\ factory_market \in SeqsUpTo(OrderQuantities, MaxFactoryOrders)
    /\ factory_stop \in 0..MaxFactoryOrders
    /\ market_order = <<>> /\ stop_order = <<>> /\ factory_calls = <<>>
    /\ pc = "market"

\* PositionSizer: the market order of the signal is generated first
GenerateMarketOrder ==
    /\ pc = "market"
    /\ LET generated == _generate_market_order(initial_risk, sized_signal.fraction_at_risk,
                                                  factory_market)
       IN  /\ factory_calls' = factory_calls \o generated.calls
           /\ market_order' = generated.order
           /\ IF generated.raised # "none"
              THEN /\ raised_by' = Raised("_generate_market_order", generated.raised)
                   /\ pc' = "failed"
              ELSE /\ pc' = "stop"
                   /\ UNCHANGED raised_by
    /\ UNCHANGED <<broker_positions, current_positions, has_contract, query, result, signals,
                   original, before, runs, timestamp, max_open_positions, todo, orders, filter_i,
                   calls, orders_filters, skipped>>
    /\ UNCHANGED <<initial_risk, sized_signal, existing_quantity, factory_market, factory_stop,
                   stop_order, style_vars>>

\* PositionSizer: then the stop order, given the market order
GenerateStopOrder ==
    /\ pc = "stop"
    /\ LET generated == _generate_stop_order(existing_quantity, market_order, factory_stop)
       IN  /\ factory_calls' = factory_calls \o generated.calls
           /\ stop_order' = generated.order
           /\ IF generated.raised # "none"
              THEN /\ raised_by' = Raised("_generate_stop_order", generated.raised)
                   /\ pc' = "failed"
              ELSE /\ pc' = "sized"
                   /\ UNCHANGED raised_by
    /\ UNCHANGED <<broker_positions, current_positions, has_contract, query, result, signals,
                   original, before, runs, timestamp, max_open_positions, todo, orders, filter_i,
                   calls, orders_filters, skipped>>
    /\ UNCHANGED <<initial_risk, sized_signal, existing_quantity, factory_market, factory_stop,
                   market_order, style_vars>>

NextSizer ==
    \/ GenerateMarketOrder
    \/ GenerateStopOrder

SpecSizer == InitSizer /\ [][NextSizer]_vars

-----------------------------------------------------------------------------
(* The position sizer: C14, C15, C16 (checked under SpecSizer) *)

\* the calls of the trace of the order factory made to its method name
FactoryCallsOf(name) == {i \in DOMAIN factory_calls : factory_calls[i].call = name}

\* the quantity of the market order generated for the signal, 0 when there is none
MarketQuantity == IF market_order = <<>> THEN 0 ELSE market_order[1].quantity

\* the position once the market order is filled
ResultingPosition == existing_quantity + MarketQuantity

Abs(n) == IF n < 0 THEN 0 - n ELSE n

\* _generate_stop_order has called the order factory
StopRequested == pc = "sized" \/ raised_by.call = "_generate_stop_order"

\* C14: the stop quantity requested from the order factory is minus (existing position
\* quantity + market order quantity, 0 without a market order): added to the resulting
\* position it leaves 0 and it is not larger in magnitude, whatever the signal's exposure;
\* a stop order returned has that quantity
C14_StopFlattensResultingPosition ==
    /\ StopRequested <=> Cardinality(FactoryCallsOf("orders")) = 1
    /\ \A i \in FactoryCallsOf("orders") :
          /\ factory_calls[i].arg = 0 - ResultingPosition
          /\ ResultingPosition + factory_calls[i].arg = 0
          /\ Abs(factory_calls[i].arg) <= Abs(ResultingPosition)
    /\ stop_order # <<>> =>
          /\ stop_order[1].style = "StopOrder"
          /\ stop_order[1].quantity = 0 - ResultingPosition

\* an OUT signal on a short position of 2, a market order buying 1: the stop buys 1
C14_Witness ==
    /\ pc = "sized"
    /\ sized_signal.suggested_exposure = "OUT"
    /\ existing_quantity = -2
    /\ MarketQuantity = 1
    /\ stop_order # <<>>
    /\ stop_order[1].quantity = 1

\* initial_risk or fraction_at_risk is NaN or infinite, or their quotient is
MalformedRisk ==
    \/ initial_risk \in NonFinite
    \/ sized_signal.fraction_at_risk \in NonFinite
    \/ divide(initial_risk, sized_signal.fraction_at_risk) \in NonFinite

\* C15: with initial_risk or fraction_at_risk NaN or infinite, or with a non-finite
\* quotient, _generate_market_order raises AssertionError: the order factory is never
\* called and no order is returned; a finite initial_risk over a fraction_at_risk of 0.0
\* has no quotient and raises ZeroDivisionError, before the order factory too
C15_MalformedRiskRaises ==
    pc # "market" =>
        /\ MalformedRisk =>
              /\ pc = "failed"
              /\ raised_by = Raised("_generate_market_order", "AssertionError")
              /\ factory_calls = <<>>
              /\ market_order = <<>> /\ stop_order = <<>>
        /\ (~MalformedRisk /\ sized_signal.fraction_at_risk = "0.0") =>
              /\ pc = "failed"
              /\ raised_by = Raised("_generate_market_order", "ZeroDivisionError")
              /\ factory_calls = <<>>
              /\ market_order = <<>> /\ stop_order = <<>>
        /\ FactoryCallsOf("target_percent_orders") # {} =>
              /\ ~MalformedRisk
              /\ is_finite_number(factory_calls[1].arg)

\* finite inputs with an infinite quotient, and a factory that would have returned an order
C15_Witness ==
    /\ pc = "failed"
    /\ initial_risk = "1e308"
    /\ sized_signal.fraction_at_risk = "0.02"
    /\ Len(factory_market) = 1
    /\ raised_by.call = "_generate_market_order"
    /\ factory_calls = <<>>

\* what a generator does with the list of n orders the factory returned to it: nothing
\* raised and no order for none, the order for one, AssertionError for more
Cardinality_Outcome(generator, n, returned, first) ==
    /\ n = 0 => returned = <<>> /\ raised_by.call # generator
    /\ n = 1 => returned = <<first>> /\ raised_by.call # generator
    /\ n > 1 => /\ returned = <<>>
                /\ pc = "failed"
                /\ raised_by = Raised(generator, "AssertionError")

\* C16: in _generate_market_order and in _generate_stop_order alike, a factory that returns
\* no order yields None without an error, one order is returned as it is, and more than
\* one order raises AssertionError
C16_FactoryCardinality ==
    /\ FactoryCallsOf("target_percent_orders") # {} =>
          Cardinality_Outcome("_generate_market_order", Len(factory_market), market_order,
                              [quantity |-> Head(factory_market), style |-> "MarketOrder"])
    /\ FactoryCallsOf("orders") # {} =>
          Cardinality_Outcome("_generate_stop_order", factory_stop, stop_order,
                              [quantity |-> 0 - ResultingPosition, style |-> "StopOrder"])
    /\ (pc = "sized" /\ Len(factory_market) = 0 /\ factory_stop = 0) =>
          /\ market_order = <<>> /\ stop_order = <<>>
          /\ raised_by = NotRaised

\* one market order was returned as it is, then two stop orders raised
C16_Witness ==
    /\ pc = "failed"
    /\ Len(factory_market) = 1
    /\ market_order # <<>>
    /\ factory_stop = 2
    /\ raised_by = Raised("_generate_stop_order", "AssertionError")

-----------------------------------------------------------------------------
(* SpecStyle: two ExecutionStyle objects are compared and hashed *)

\* the highest stop price
MaxStopPrice == 2

\* the objects of the same value that are told apart
MaxObjects == 2

\* the ExecutionStyle objects: the class, the stop price of a StopOrder (None for the
\* other classes), and which of the objects of that value it is
StyleObjects ==
    [type : {"MarketOrder", "MarketOnCloseOrder"}, stop_price : {None}, object : 1..MaxObjects]
        \cup [type : {"StopOrder"}, stop_price : 1..MaxStopPrice, object : 1..MaxObjects]

\* mutant: styles are equal when they are of the same class
__eq__by_class(self, other) == self.type = other.type

\* lines 23-24, 31-32, 45-53: self == other, by the class of self
__eq__(self, other) ==
    IF self.type = "MarketOrder" THEN other.type = "MarketOrder"
    ELSE IF self.type = "MarketOnCloseOrder" THEN other.type = "MarketOnCloseOrder"
    ELSE IF other = self THEN TRUE
    ELSE IF other.type = "StopOrder" THEN self.stop_price = other.stop_price
    ELSE FALSE

\* lines 26-27, 34-35, 55-56: what hash(self) hashes
__hash__(self) ==
    IF self.type = "StopOrder" THEN <<self.type, self.stop_price>> ELSE <<self.type>>

InitStyle ==
    /\ broker_positions = <<>> /\ current_positions = <<>>
    /\ has_contract = TRUE /\ query = "none" /\ result = "none"
    /\ signals = <<>> /\ original = <<>> /\ before = <<>> /\ runs = 0
    /\ timestamp = 0 /\ max_open_positions = None
    /\ todo = <<>> /\ orders = <<>> /\ filter_i = 0 /\ calls = <<>>
    /\ orders_filters = 0 /\ skipped = {} /\ raised_by = NotRaised
    /\ NoSizing
    /\ style_a \in StyleObjects
    /\ style_b \in StyleObjects
    /\ compared = <<>>
    /\ pc = "eq"

\* a == b and b == a
CompareStyles ==
    /\ pc = "eq"
    /\ compared' = <<__eq__(style_a, style_b), __eq__(style_b, style_a)>>
    /\ pc' = "hash"
    /\ UNCHANGED <<cycle_vars, sizer_vars, style_a, style_b>>

\* hash(a) and hash(b)
HashStyles ==
    /\ pc = "hash"
    /\ compared' = compared \o <<__hash__(style_a), __hash__(style_b)>>
    /\ pc' = "compared"
    /\ UNCHANGED <<cycle_vars, sizer_vars, style_a, style_b>>

NextStyle ==
    \/ CompareStyles
    \/ HashStyles

SpecStyle == InitStyle /\ [][NextStyle]_vars

-----------------------------------------------------------------------------
(* Execution styles: C17 (checked under SpecStyle) *)

\* the two styles are the same variant and, when stop orders, have the same stop price
SameStyle ==
    /\ style_a.type = style_b.type
    /\ style_a.type = "StopOrder" => style_a.stop_price = style_b.stop_price

\* C17: a == b holds exactly when a and b are the same variant and, for stop orders, have
\* the same stop price; b == a gives what a == b gives; equal styles have equal hashes
C17_ValueEquality ==
    /\ pc \in {"hash", "compared"} =>
          /\ compared[1] = SameStyle
          /\ compared[2] = compared[1]
    /\ pc = "compared" =>
          /\ compared[1] => compared[3] = compared[4]
          /\ (style_a.type # style_b.type) => ~compared[1] /\ ~compared[2]

\* two different StopOrder objects of the same stop price are equal and hash alike
C17_Witness ==
    /\ pc = "compared"
    /\ style_a # style_b
    /\ style_a.type = "StopOrder" /\ style_b.type = "StopOrder"
    /\ style_a.stop_price = style_b.stop_price
    /\ compared[1] /\ compared[2]
    /\ compared[3] = compared[4]

-----------------------------------------------------------------------------
(* Futures in the cap count: C21 (checked under SpecCap) *)

\* the specific contracts of the family of future_ticker with a position in the portfolio
ContractsOpen(future_ticker) ==
    {broker_positions[i].ticker : i \in DOMAIN broker_positions} \cap Contracts

\* the signals of the list, by their place, on a future with a contract of its family open
FutureSignalsOnOpenFamily(list) ==
    {i \in DOMAIN list : list[i].ticker \in FutureTickers /\ ContractsOpen(list[i].ticker) # {}}

\* how often place i is listed
Occurrences(listed, i) == Cardinality({k \in DOMAIN listed : listed[k] = i})

\* C21: a signal on a future with one or more contracts of its family open is listed once
\* among the signals of open positions and not among the new positions: it adds 1 to the
\* number of positions to be open however many contracts are open, it is never suppressed,
\* and the number of signals suppressed is the excess of that count over the cap
C21_FamilyCountedOnce ==
    LET open_tickers == open_positions_specific_tickers(broker_positions)
    IN  /\ pc = "cap" =>
              \A i \in FutureSignalsOnOpenFamily(before) :
                  /\ Occurrences(open_positions_signals(before, open_tickers), i) = 1
                  /\ Occurrences(new_positions_signals(before, open_tickers), i) = 0
        /\ CapEnforced =>
              /\ \A i \in FutureSignalsOnOpenFamily(before) : signals[i] = before[i]
              /\ Cardinality(Changed) = Excess(before)
        /\ pc = "raised" => Cardinality(TouchesOpenPosition(signals)) > max_open_positions

\* two contracts of the family are open and the cap is 1: the future's signal counts 1, the
\* signal opening a new position makes 2, and that one signal is suppressed
C21_Witness ==
    /\ CapEnforcedOnce
    /\ max_open_positions = 1
    /\ Cardinality(ContractsOpen("F")) = 2
    /\ Cardinality(FutureSignalsOnOpenFamily(before)) = 1
    /\ \A i \in FutureSignalsOnOpenFamily(before) : before[i].suggested_exposure # "OUT"
    /\ Cardinality(Changed) = 1

-----------------------------------------------------------------------------
(* The broker's open orders in a failed cycle: C22 (checked under Spec) *)

\* the steps that build the order list
ConstructionSteps ==
    {"_get_current_exposure", "get_signal", "_adjust_number_of_open_positions", "size_signals",
     "generate_close_orders", "adjust_orders"}

\* C22: in a cycle in which signal generation, cap enforcement, sizing, close-order
\* generation or filtering raised, cancel_all_open_orders is not called; it is called at
\* most once, after the sizer and the close-order generator returned and the loop over all
\* the filters ended, when the order list is final, and only place_orders follows it
C22_CancelOnlyAfterConstruction ==
    /\ raised_by.call \in ConstructionSteps => CallsOf("cancel_all_open_orders") = {}
    /\ Cardinality(CallsOf("cancel_all_open_orders")) <= 1
    /\ \A i \in CallsOf("cancel_all_open_orders") :
          /\ ReturnedCallsOf("size_signals") # {}
          /\ ReturnedCallsOf("generate_close_orders") # {}
          /\ CallsOf("adjust_orders") = ReturnedCallsOf("adjust_orders")
          /\ filter_i = orders_filters + 1
          /\ orders = FinalOrders
          /\ \A j \in DOMAIN calls : j > i => calls[j].call = "place_orders"
          /\ \A j \in DOMAIN calls : j < i => calls[j].call # "place_orders"

\* the sizer returned orders, the close-order generator raised: nothing was cancelled
C22_Witness ==
    /\ pc = "failed"
    /\ raised_by.call = "generate_close_orders"
    /\ orders # <<>>
    /\ CallsOf("cancel_all_open_orders") = {}
    /\ CallsOf("place_orders") = {}

====
